---- MODULE Spec2Model ----
(***************************************************************************)
(* infosquito2: reconciliation of a search index against the ICAT catalog, *)
(* one UUID prefix per pass (reindex.go), and the document equality it     *)
(* classifies with.                                                        *)
(***************************************************************************)
EXTENDS Integers, Sequences, FiniteSets, TLC

(***************************************************************************)
(* Bounds of the model.                                                    *)
(***************************************************************************)
\* longest metadata list of the documents Equal and classify are applied to
MaxListLen == 2
\* most ipc_UUID metadata rows under the prefix that belong to no object
MaxStale == 1
\* maxInPrefix, the cap on the rows and on the hits of one pass, scaled down
maxInPrefix == 2
\* the bulk size ReindexPrefix gives NewBulkIndexer (1000), scaled down
bulkSize == 2

(***************************************************************************)
(* DocumentClassification (iota constants).                                *)
(***************************************************************************)
NoAction == 0
IndexDocument == 1
UpdateDocument == 2

(***************************************************************************)
(* Document model.                                                         *)
(***************************************************************************)
Metadatum(a, v, u) == [Attribute |-> a, Value |-> v, Unit |-> u]

UserPermission(u, p) == [User |-> u, Permission |-> p]

ElasticsearchDocument(id, path, label, creator, fileType, dateCreated, dateModified, fileSize, metadata, userPermissions) ==
    [Id |-> id, Path |-> path, Label |-> label, Creator |-> creator,
     FileType |-> fileType, DateCreated |-> dateCreated,
     DateModified |-> dateModified, FileSize |-> fileSize,
     Metadata |-> metadata, UserPermissions |-> userPermissions]

\* the zero value a failed json.Unmarshal leaves behind
ZeroDocument == ElasticsearchDocument("", "", "", "", "", 0, 0, 0, <<>>, <<>>)

\* set.NewSetFromSlice: the set of the slice's elements
NewSetFromSlice(s) == {s[i] : i \in DOMAIN s}

\* golang-set Equal: same cardinality and every element of one in the other
SetEqual(s, t) == Cardinality(s) = Cardinality(t) /\ \A e \in s : e \in t

\* mutant: the lists compared entry by entry, in order
metadataEqualOrdered(one, two) == one = two

\* mutant: the lengths of the lists compared before their sets
metadataEqualCounted(one, two) ==
    Len(one) = Len(two) /\ SetEqual(NewSetFromSlice(one), NewSetFromSlice(two))

metadataEqual(one, two) == SetEqual(NewSetFromSlice(one), NewSetFromSlice(two))

permsEqual(one, two) == SetEqual(NewSetFromSlice(one), NewSetFromSlice(two))

\* mutant: the comparison of dateCreated left out
EqualNoDateCreated(doc, other) ==
    /\ doc.DateModified = other.DateModified
    /\ doc.FileSize = other.FileSize
    /\ doc.Path = other.Path
    /\ doc.Label = other.Label
    /\ doc.Id = other.Id
    /\ doc.Creator = other.Creator
    /\ doc.FileType = other.FileType
    /\ metadataEqual(doc.Metadata, other.Metadata)
    /\ permsEqual(doc.UserPermissions, other.UserPermissions)

Equal(doc, other) ==
    IF doc.DateModified # other.DateModified THEN FALSE
    ELSE IF doc.FileSize # other.FileSize THEN FALSE
    ELSE IF doc.Path # other.Path THEN FALSE
    ELSE IF doc.Label # other.Label THEN FALSE
    ELSE IF doc.Id # other.Id THEN FALSE
    ELSE IF doc.Creator # other.Creator THEN FALSE
    ELSE IF doc.FileType # other.FileType THEN FALSE
    ELSE IF doc.DateCreated # other.DateCreated THEN FALSE
    ELSE IF ~metadataEqual(doc.Metadata, other.Metadata) THEN FALSE
    ELSE IF ~permsEqual(doc.UserPermissions, other.UserPermissions) THEN FALSE
    ELSE TRUE

(***************************************************************************)
(* JSON sources.  A source is the text of a JSON object: its members by    *)
(* their json tags, a unit that may be JSON null, and whether every member *)
(* has the type the struct field wants.                                    *)
(***************************************************************************)
JSONNull == "null"

\* the source of a document: json tags for field names; an empty unit is
\* written as null when emptyAsNull (the catalog's coalesce(..., 'null'))
ToJSON(doc, emptyAsNull, wellTyped) ==
    [wellTyped |-> wellTyped,
     id |-> doc.Id, path |-> doc.Path, label |-> doc.Label,
     creator |-> doc.Creator, fileType |-> doc.FileType,
     dateCreated |-> doc.DateCreated, dateModified |-> doc.DateModified,
     fileSize |-> doc.FileSize,
     metadata |-> [i \in DOMAIN doc.Metadata |->
                     [attribute |-> doc.Metadata[i].Attribute,
                      value |-> doc.Metadata[i].Value,
                      unit |-> IF emptyAsNull /\ doc.Metadata[i].Unit = ""
                               THEN JSONNull ELSE doc.Metadata[i].Unit]],
     userPermissions |-> [i \in DOMAIN doc.UserPermissions |->
                     [user |-> doc.UserPermissions[i].User,
                      permission |-> doc.UserPermissions[i].Permission]]]

\* json.Unmarshal into a string field: null leaves the zero value
StringOf(v) == IF v = JSONNull THEN "" ELSE v

\* json.Unmarshal(b, &doc): an error when a member has the wrong type
Unmarshal(j) ==
    IF ~j.wellTyped THEN [err |-> TRUE, doc |-> ZeroDocument]
    ELSE [err |-> FALSE,
          doc |-> ElasticsearchDocument(j.id, j.path, j.label, j.creator,
                     j.fileType, j.dateCreated, j.dateModified, j.fileSize,
                     [i \in DOMAIN j.metadata |->
                        Metadatum(StringOf(j.metadata[i].attribute),
                                  StringOf(j.metadata[i].value),
                                  StringOf(j.metadata[i].unit))],
                     [i \in DOMAIN j.userPermissions |->
                        UserPermission(StringOf(j.userPermissions[i].user),
                                       StringOf(j.userPermissions[i].permission))])]

(***************************************************************************)
(* classify                                                                *)
(***************************************************************************)
\* mutant: the result of the comparison inverted
classifyInverted(id, jsonstr, esDocs) ==
    IF id \notin DOMAIN esDocs THEN [class |-> IndexDocument, err |-> FALSE]
    ELSE IF Unmarshal(jsonstr).err THEN [class |-> NoAction, err |-> TRUE]
    ELSE IF Equal(Unmarshal(jsonstr).doc, esDocs[id])
         THEN [class |-> UpdateDocument, err |-> FALSE]
         ELSE [class |-> NoAction, err |-> FALSE]

\* mutant: the lookup's ok dropped, an absent id read as the zero document
classifyNoLookup(id, jsonstr, esDocs) ==
    IF Unmarshal(jsonstr).err THEN [class |-> NoAction, err |-> TRUE]
    ELSE IF ~Equal(Unmarshal(jsonstr).doc,
                   IF id \in DOMAIN esDocs THEN esDocs[id] ELSE ZeroDocument)
         THEN [class |-> UpdateDocument, err |-> FALSE]
         ELSE [class |-> NoAction, err |-> FALSE]

\* mutant: the error of json.Unmarshal not returned
classifyErrDropped(id, jsonstr, esDocs) ==
    IF id \notin DOMAIN esDocs THEN [class |-> IndexDocument, err |-> FALSE]
    ELSE IF Unmarshal(jsonstr).err THEN [class |-> NoAction, err |-> FALSE]
    ELSE IF ~Equal(Unmarshal(jsonstr).doc, esDocs[id])
         THEN [class |-> UpdateDocument, err |-> FALSE]
         ELSE [class |-> NoAction, err |-> FALSE]

classify(id, jsonstr, esDocs) ==
    IF id \notin DOMAIN esDocs THEN [class |-> IndexDocument, err |-> FALSE]
    ELSE IF Unmarshal(jsonstr).err THEN [class |-> NoAction, err |-> TRUE]
    ELSE IF ~Equal(Unmarshal(jsonstr).doc, esDocs[id])
         THEN [class |-> UpdateDocument, err |-> FALSE]
         ELSE [class |-> NoAction, err |-> FALSE]

(***************************************************************************)
(* The catalog and the index under the prefix of the pass.                 *)
(* Every uuid and id below matches the prefix.  The catalog holds at most  *)
(* one object per uuid and the index at most one document per id; nobody   *)
(* but the pass writes to either while it runs.                            *)
(***************************************************************************)
\* the ipc_UUID values the catalog may hold under the prefix, in row order
CatUuids == <<"U1", "u2">>

\* the ids the index may hold documents under
EsIds == {"u1", "U1", "u2"}

\* lower(meta.meta_attr_value)
Lower(v) == IF v = "U1" THEN "u1" ELSE v

M1 == Metadatum("color", "red", "")
M2 == Metadatum("size", "10", "cm")
P1 == UserPermission("ann#zone", "own")
P2 == UserPermission("bob#zone", "read")

\* the documents of the pass: variant "A", "A2" (A with its metadata in
\* another order) and "B" (A modified later)
Document(id, variant) ==
    ElasticsearchDocument(id, "/zone/home/x", "x", "ann#zone", "", 50,
        IF variant = "B" THEN 100 ELSE 90, 7,
        IF variant = "A2" THEN <<M2, M1>> ELSE <<M1, M2>>, <<P1>>)

NoObject == [kind |-> "none"]

\* a catalog object: file or folder, its document, and whether the projected
\* JSON row has the shape of ElasticsearchDocument
CatalogObjects ==
    {NoObject} \cup [kind : {"file", "folder"}, variant : {"A", "B"}, wellTyped : {TRUE}]
               \cup [kind : {"file"}, variant : {"A"}, wellTyped : {FALSE}]

NoDoc == [type |-> "none"]

\* an indexed document under id: its type and its source
IndexedDocuments(id) ==
    {NoDoc} \cup {[type |-> t, source |-> ToJSON(Document(Lower(id), v), FALSE, w)] :
                    t \in {"file", "folder"},
                    v \in IF id = "U1" THEN {"A"} ELSE {"A", "A2"},
                    w \in IF id = "u1" THEN {TRUE} ELSE BOOLEAN}

VARIABLES catalog, stale, found, indexed, pc, err, tx, defers, rows, esDocs, esDocTypes,
          seenEsDocs, cursor, pending, indexer, sent, flushCalls, enqueued, logged,
          steps, fnA, fnB, fnOp, fnPrev, fnRes, fnRev, fnCls

\* found: the index under the prefix as it is when the pass begins
envVars == <<catalog, stale, found>>
esVars == <<indexed, indexer, sent, flushCalls>>
passVars == <<esVars, pc, err, tx, defers, rows, esDocs, esDocTypes,
              seenEsDocs, cursor, pending, enqueued, logged, steps>>
fnVars == <<fnA, fnB, fnOp, fnPrev, fnRes, fnRev, fnCls>>
vars == <<envVars, passVars, fnVars>>

\* var rows rowMetadata
rowMetadata ==
    [rows |-> 0, documents |-> 0, processed |-> 0, dataobjects |-> 0,
     dataobjectsAdded |-> 0, dataobjectsUpdated |-> 0, dataobjectsRemoved |-> 0,
     colls |-> 0, collsAdded |-> 0, collsUpdated |-> 0, collsRemoved |-> 0]

EmptyMap == [x \in {} |-> x]

(***************************************************************************)
(* The bulk accumulator (esutils.BulkIndexer over elastic's BulkService).  *)
(***************************************************************************)
\* elastic.NewBulkIndexRequest().Index(index).Type(t).Id(id).Doc(json)
BulkIndexRequest(t, id, json) == [op |-> "index", type |-> t, id |-> id, doc |-> json]

\* elastic.NewBulkDeleteRequest().Index(es.index).Type(docType).Id(id)
BulkDeleteRequest(t, id) == [op |-> "delete", type |-> t, id |-> id]

\* the index after one request of a bulk is applied
ApplyRequest(idx, req) ==
    IF req.op = "index"
    THEN [idx EXCEPT ![req.id] = [type |-> req.type, source |-> req.doc]]
    ELSE [idx EXCEPT ![req.id] = NoDoc]

\* the index after the requests of a bulk are applied, in order
RECURSIVE ApplyBulk(_, _)
ApplyBulk(idx, reqs) ==
    IF reqs = <<>> THEN idx
    ELSE ApplyBulk(ApplyRequest(idx, Head(reqs)), Tail(reqs))

\* the accumulator and the index it writes to, as one value
ES == [requests |-> indexer, indexed |-> indexed, sent |-> sent, calls |-> flushCalls]

\* indexer.CanFlush()
CanFlush(es) == Len(es.requests) > 0

\* indexer.Flush(): the buffered requests sent as one bulk, which the index
\* applies or refuses; a refused or empty bulk is an error and changes nothing
Flush(es) ==
    {[ok |-> FALSE, requests |-> es.requests, indexed |-> es.indexed,
      sent |-> es.sent, calls |-> es.calls + 1]}
    \cup IF es.requests = <<>> THEN {}
         ELSE {[ok |-> TRUE, requests |-> <<>>,
                indexed |-> ApplyBulk(es.indexed, es.requests),
                sent |-> es.sent \o es.requests, calls |-> es.calls + 1]}

\* indexer.Add(req): buffers the request and flushes once the buffer holds
\* the bulk size
Add(es, req) ==
    IF Len(es.requests) + 1 >= bulkSize
    THEN Flush([es EXCEPT !.requests = Append(@, req)])
    ELSE {[ok |-> TRUE, requests |-> Append(es.requests, req),
           indexed |-> es.indexed, sent |-> es.sent, calls |-> es.calls]}

\* the accumulator and the index take the outcome o of a call
Becomes(o) ==
    /\ indexer' = o.requests
    /\ indexed' = o.indexed
    /\ sent' = o.sent
    /\ flushCalls' = o.calls

(***************************************************************************)
(* The catalog queries and the index search of a pass.                     *)
(***************************************************************************)
Uuids == {CatUuids[i] : i \in DOMAIN CatUuids}

\* the rows of base_object_uuids: the ipc_UUID metadata under the prefix,
\* those of no object included
BaseObjectUuids == Cardinality({u \in Uuids : catalog[u] # NoObject}) + stale

\* mutant: a count equal to the cap refused too
createBaseUuidsTableAtCap ==
    {[r |-> 0, err |-> "CreateTemporaryTable"]}
    \cup {IF BaseObjectUuids >= maxInPrefix
          THEN [r |-> BaseObjectUuids, err |-> "ErrTooManyResults"]
          ELSE [r |-> BaseObjectUuids, err |-> ""]}

\* mutant: the count not compared with maxInPrefix
createBaseUuidsTableNoCap ==
    {[r |-> 0, err |-> "CreateTemporaryTable"], [r |-> BaseObjectUuids, err |-> ""]}

\* the outcomes of createBaseUuidsTable: the query fails, or it gives the count
createBaseUuidsTable ==
    {[r |-> 0, err |-> "CreateTemporaryTable"]}
    \cup {IF BaseObjectUuids > maxInPrefix
          THEN [r |-> BaseObjectUuids, err |-> "ErrTooManyResults"]
          ELSE [r |-> BaseObjectUuids, err |-> ""]}

\* the outcomes of createUuidsTable
createUuidsTable ==
    {[r |-> 0, err |-> o.err] : o \in {b \in createBaseUuidsTable : b.err # ""}}
    \cup UNION {{[r |-> 0, err |-> "CreateTemporaryTable"], [r |-> o.r, err |-> ""]} :
                 o \in {b \in createBaseUuidsTable : b.err = ""}}

\* the hits of the search: every document under the prefix
Hits == {id \in EsIds : indexed[id] # NoDoc}

TotalHits == Cardinality(Hits)

\* the hits whose source deserializes
Deserialized == {id \in Hits : ~Unmarshal(indexed[id].source).err}

\* mutant: the hits read without the check of their total
getSearchResultsNoCap ==
    {[docs |-> 0, esDocs |-> EmptyMap, esDocTypes |-> EmptyMap, err |-> "Search"],
     [docs |-> TotalHits,
      esDocs |-> [id \in Deserialized |-> Unmarshal(indexed[id].source).doc],
      esDocTypes |-> [id \in Deserialized |-> indexed[id].type],
      err |-> ""]}

\* mutant: a hit that does not deserialize returned as the error of the search
getSearchResultsStrict ==
    {[docs |-> 0, esDocs |-> EmptyMap, esDocTypes |-> EmptyMap, err |-> "Search"]}
    \cup {IF TotalHits > maxInPrefix
          THEN [docs |-> TotalHits, esDocs |-> EmptyMap, esDocTypes |-> EmptyMap,
                err |-> "ErrTooManyResults"]
          ELSE IF Deserialized # Hits
          THEN [docs |-> TotalHits, esDocs |-> EmptyMap, esDocTypes |-> EmptyMap,
                err |-> "Unmarshal"]
          ELSE [docs |-> TotalHits,
                esDocs |-> [id \in Deserialized |-> Unmarshal(indexed[id].source).doc],
                esDocTypes |-> [id \in Deserialized |-> indexed[id].type],
                err |-> ""]}

\* the outcomes of getSearchResults
getSearchResults ==
    {[docs |-> 0, esDocs |-> EmptyMap, esDocTypes |-> EmptyMap, err |-> "Search"]}
    \cup {IF TotalHits > maxInPrefix
          THEN [docs |-> TotalHits, esDocs |-> EmptyMap, esDocTypes |-> EmptyMap,
                err |-> "ErrTooManyResults"]
          ELSE [docs |-> TotalHits,
                esDocs |-> [id \in Deserialized |-> Unmarshal(indexed[id].source).doc],
                esDocTypes |-> [id \in Deserialized |-> indexed[id].type],
                err |-> ""]}

\* the (id, json) row of the catalog object under uuid u
Row(u) ==
    [id |-> Lower(u),
     json |-> ToJSON(Document(Lower(u), catalog[u].variant), TRUE, catalog[u].wellTyped)]

\* tx.GetDataObjects / tx.GetCollections: the rows of the objects of a kind
RowsOf(kind) ==
    LET F[i \in 0..Len(CatUuids)] ==
            IF i = 0 THEN <<>>
            ELSE IF catalog[CatUuids[i]].kind = kind
                 THEN Append(F[i - 1], Row(CatUuids[i]))
                 ELSE F[i - 1]
    IN F[Len(CatUuids)]

\* index(indexer, index, id, t, json)
index(es, id, t, json) == Add(es, BulkIndexRequest(t, id, json))

(***************************************************************************)
(* ReindexPrefix, one action per step.                                     *)
(***************************************************************************)
\* return e: the deferred calls run next
Return(e) == err' = e /\ pc' = "return" /\ UNCHANGED steps

\* the call of ReindexPrefix named step has returned without an error
Returned(step) == steps' = Append(steps, step)

\* SETUP: defer logTime, begin the transaction, defer its rollback
ReindexPrefix_BeginTx ==
    /\ pc = "ReindexPrefix"
    /\ \/ /\ tx' = "open"
          /\ defers' = <<"logTime", "Rollback">>
          /\ pc' = "createUuidsTable"
          /\ Returned("BeginTx")
          /\ UNCHANGED err
       \/ /\ defers' = <<"logTime">>
          /\ Return("BeginTx")
          /\ UNCHANGED tx
    /\ UNCHANGED <<envVars, esVars, rows, esDocs, esDocTypes, seenEsDocs,
                   cursor, pending, enqueued, logged, fnVars>>

ReindexPrefix_createUuidsTable ==
    /\ pc = "createUuidsTable"
    /\ \E o \in createUuidsTable :
          /\ rows' = [rows EXCEPT !.rows = o.r]
          /\ IF o.err # "" THEN Return(o.err)
             ELSE pc' = "getSearchResults" /\ Returned("createUuidsTable") /\ UNCHANGED err
    /\ UNCHANGED <<envVars, esVars, tx, defers, esDocs, esDocTypes, seenEsDocs,
                   cursor, pending, enqueued, logged, fnVars>>

ReindexPrefix_getSearchResults ==
    /\ pc = "getSearchResults"
    /\ \E o \in getSearchResults :
          /\ rows' = [rows EXCEPT !.documents = o.docs]
          /\ esDocs' = o.esDocs
          /\ esDocTypes' = o.esDocTypes
          /\ IF o.err # "" THEN Return(o.err)
             ELSE pc' = "createPermsTable" /\ Returned("getSearchResults") /\ UNCHANGED err
    /\ seenEsDocs' = {}
    /\ UNCHANGED <<envVars, esVars, tx, defers, cursor, pending, enqueued,
                   logged, fnVars>>

ReindexPrefix_createPermsTable ==
    /\ pc = "createPermsTable"
    /\ \/ pc' = "createMetadataTable" /\ Returned("createPermsTable") /\ UNCHANGED err
       \/ Return("CreateTemporaryTable")
    /\ UNCHANGED <<envVars, esVars, tx, defers, rows, esDocs, esDocTypes,
                   seenEsDocs, cursor, pending, enqueued, logged, fnVars>>

ReindexPrefix_createMetadataTable ==
    /\ pc = "createMetadataTable"
    /\ \/ pc' = "NewBulkIndexer" /\ Returned("createMetadataTable") /\ UNCHANGED err
       \/ Return("CreateTemporaryTable")
    /\ UNCHANGED <<envVars, esVars, tx, defers, rows, esDocs, esDocTypes,
                   seenEsDocs, cursor, pending, enqueued, logged, fnVars>>

\* mutant: the Flush of the indexer not deferred
ReindexPrefix_NewBulkIndexerNoDefer ==
    /\ pc = "NewBulkIndexer"
    /\ indexer' = <<>>
    /\ pc' = "processDataobjects"
    /\ Returned("NewBulkIndexer")
    /\ UNCHANGED <<envVars, indexed, sent, flushCalls, err, tx, defers, rows, esDocs,
                   esDocTypes, seenEsDocs, cursor, pending, enqueued, logged, fnVars>>

\* PROCESS: the indexer is made and its Flush deferred
ReindexPrefix_NewBulkIndexer ==
    /\ pc = "NewBulkIndexer"
    /\ indexer' = <<>>
    /\ defers' = Append(defers, "Flush")
    /\ pc' = "processDataobjects"
    /\ Returned("NewBulkIndexer")
    /\ UNCHANGED <<envVars, indexed, sent, flushCalls, err, tx, rows, esDocs,
                   esDocTypes, seenEsDocs, cursor, pending, enqueued, logged, fnVars>>

\* the counter of the rows of type t that are added, updated, removed, processed
Added(t) == IF t = "file" THEN "dataobjectsAdded" ELSE "collsAdded"
Updated(t) == IF t = "file" THEN "dataobjectsUpdated" ELSE "collsUpdated"
Removed(t) == IF t = "file" THEN "dataobjectsRemoved" ELSE "collsRemoved"
Processed(t) == IF t = "file" THEN "dataobjects" ELSE "colls"

\* the query of processDataobjects (t = "file") or processCollections
\* (t = "folder"): the row sequence is opened, or the query fails
OpenRows(t, here, loop, e) ==
    /\ pc = here
    /\ \/ cursor' = RowsOf(t) /\ pc' = loop /\ UNCHANGED <<err, steps>>
       \/ Return(e) /\ UNCHANGED cursor
    /\ UNCHANGED <<envVars, esVars, tx, defers, rows, esDocs, esDocTypes,
                   seenEsDocs, pending, enqueued, logged, fnVars>>

\* one turn of the loop over the rows: the row is scanned, marked seen,
\* classified, counted and, unless it needs no action, indexed as type t
NextRow(t, loop) ==
    /\ pc = loop
    /\ cursor # <<>>
    /\ LET row == Head(cursor)
           c == classify(row.id, row.json, esDocs)
           counted == IF c.class = UpdateDocument
                      THEN [rows EXCEPT ![Updated(t)] = @ + 1]
                      ELSE IF c.class = IndexDocument
                           THEN [rows EXCEPT ![Added(t)] = @ + 1]
                           ELSE rows
           done == [counted EXCEPT !.processed = @ + 1, ![Processed(t)] = @ + 1]
       IN \/ /\ Return("Scan")
             /\ cursor' = <<>>
             /\ UNCHANGED <<esVars, rows, seenEsDocs, enqueued>>
          \/ /\ seenEsDocs' = seenEsDocs \cup {row.id}
             /\ IF c.err
                THEN /\ Return("Unmarshal")
                     /\ cursor' = <<>>
                     /\ UNCHANGED <<esVars, rows, enqueued>>
                ELSE IF c.class = UpdateDocument \/ c.class = IndexDocument
                THEN /\ enqueued' = Append(enqueued, BulkIndexRequest(t, row.id, row.json))
                     /\ \E o \in index(ES, row.id, t, row.json) :
                           /\ Becomes(o)
                           /\ IF o.ok
                              THEN /\ rows' = done
                                   /\ cursor' = Tail(cursor)
                                   /\ UNCHANGED <<pc, err, steps>>
                              ELSE /\ rows' = counted
                                   /\ cursor' = <<>>
                                   /\ Return("Add")
                ELSE /\ rows' = done
                     /\ cursor' = Tail(cursor)
                     /\ UNCHANGED <<esVars, enqueued, pc, err, steps>>
    /\ UNCHANGED <<envVars, tx, defers, esDocs, esDocTypes, pending, logged, fnVars>>

\* the rows are exhausted: the function returns nil
EndRows(loop, next) ==
    /\ pc = loop
    /\ cursor = <<>>
    /\ pc' = next
    /\ Returned(IF next = "processDeletions" THEN "processCollections"
                ELSE "processDataobjects")
    /\ pending' = IF next = "processDeletions" THEN DOMAIN esDocs ELSE pending
    /\ UNCHANGED <<envVars, esVars, err, tx, defers, rows, esDocs, esDocTypes,
                   seenEsDocs, cursor, enqueued, logged, fnVars>>

processDataobjects_Query ==
    OpenRows("file", "processDataobjects", "dataobjects.Next", "GetDataObjects")

processDataobjects_Row == NextRow("file", "dataobjects.Next")

\* mutant: the deletions computed once the files are classified
processDataobjects_EndThenDeletions == EndRows("dataobjects.Next", "processDeletions")

processDataobjects_End == EndRows("dataobjects.Next", "processCollections")

processCollections_Query ==
    OpenRows("folder", "processCollections", "colls.Next", "GetCollections")

\* mutant: the loop of processDataobjects copied with its type and counters
processCollections_RowAsFile == NextRow("file", "colls.Next")

processCollections_Row == NextRow("folder", "colls.Next")

processCollections_End == EndRows("colls.Next", "processDeletions")

\* mutant: the seen mark not consulted
processDeletions_RangeAll ==
    /\ pc = "processDeletions"
    /\ \E id \in pending :
          /\ pending' = pending \ {id}
          /\ LET docType == IF id \in DOMAIN esDocTypes THEN esDocTypes[id] ELSE "file"
             IN /\ rows' = [rows EXCEPT ![Removed(docType)] = @ + 1]
                /\ enqueued' = Append(enqueued, BulkDeleteRequest(docType, id))
                /\ \E o \in Add(ES, BulkDeleteRequest(docType, id)) :
                      /\ Becomes(o)
                      /\ IF o.ok THEN UNCHANGED <<pc, err, steps>> ELSE Return("Add")
    /\ UNCHANGED <<envVars, tx, defers, esDocs, esDocTypes, seenEsDocs, cursor,
                   logged, fnVars>>

\* mutant: the error of indexer.Add not returned, the range goes on
processDeletions_RangeAddUnchecked ==
    /\ pc = "processDeletions"
    /\ \E id \in pending :
          /\ pending' = pending \ {id}
          /\ IF id \notin seenEsDocs
             THEN LET docType == IF id \in DOMAIN esDocTypes THEN esDocTypes[id]
                                 ELSE "file"
                      counted == IF docType = "file" \/ docType = "folder"
                                 THEN [rows EXCEPT ![Removed(docType)] = @ + 1]
                                 ELSE rows
                  IN /\ rows' = counted
                     /\ enqueued' = Append(enqueued, BulkDeleteRequest(docType, id))
                     /\ \E o \in Add(ES, BulkDeleteRequest(docType, id)) : Becomes(o)
                     /\ UNCHANGED <<pc, err, steps>>
             ELSE UNCHANGED <<esVars, rows, enqueued, pc, err, steps>>
    /\ UNCHANGED <<envVars, tx, defers, esDocs, esDocTypes, seenEsDocs, cursor,
                   logged, fnVars>>

\* one turn of the range over esDocs, in the order the map gives
processDeletions_Range ==
    /\ pc = "processDeletions"
    /\ \E id \in pending :
          /\ pending' = pending \ {id}
          /\ IF id \notin seenEsDocs
             THEN LET docType == IF id \in DOMAIN esDocTypes THEN esDocTypes[id]
                                 ELSE "file"
                      counted == IF docType = "file" \/ docType = "folder"
                                 THEN [rows EXCEPT ![Removed(docType)] = @ + 1]
                                 ELSE rows
                  IN /\ rows' = counted
                     /\ enqueued' = Append(enqueued, BulkDeleteRequest(docType, id))
                     /\ \E o \in Add(ES, BulkDeleteRequest(docType, id)) :
                           /\ Becomes(o)
                           /\ IF o.ok THEN UNCHANGED <<pc, err, steps>> ELSE Return("Add")
             ELSE UNCHANGED <<esVars, rows, enqueued, pc, err, steps>>
    /\ UNCHANGED <<envVars, tx, defers, esDocs, esDocTypes, seenEsDocs, cursor,
                   logged, fnVars>>

processDeletions_End ==
    /\ pc = "processDeletions"
    /\ pending = {}
    /\ pc' = "FinalFlush"
    /\ Returned("processDeletions")
    /\ UNCHANGED <<envVars, esVars, err, tx, defers, rows, esDocs, esDocTypes,
                   seenEsDocs, cursor, pending, enqueued, logged, fnVars>>

\* mutant: the error of the last flush dropped
ReindexPrefix_FinalFlushUnchecked ==
    /\ pc = "FinalFlush"
    /\ IF CanFlush(ES)
       THEN \E o \in Flush(ES) : Becomes(o) /\ Return("")
       ELSE Return("") /\ UNCHANGED esVars
    /\ UNCHANGED <<envVars, tx, defers, rows, esDocs, esDocTypes, seenEsDocs,
                   cursor, pending, enqueued, logged, fnVars>>

\* FINISH UP: what is still buffered is flushed
ReindexPrefix_FinalFlush ==
    /\ pc = "FinalFlush"
    /\ IF CanFlush(ES)
       THEN \E o \in Flush(ES) :
               /\ Becomes(o)
               /\ IF o.ok THEN Return("") ELSE Return("Flush")
       ELSE Return("") /\ UNCHANGED esVars
    /\ UNCHANGED <<envVars, tx, defers, rows, esDocs, esDocTypes, seenEsDocs,
                   cursor, pending, enqueued, logged, fnVars>>

\* mutant: the deferred calls run first deferred first
DeferredInOrder(call) ==
    /\ pc = "return"
    /\ defers # <<>>
    /\ defers[1] = call
    /\ defers' = Tail(defers)
    /\ pc' = IF Len(defers) = 1 THEN "done" ELSE "return"
    /\ UNCHANGED steps

\* the deferred calls, last deferred first
Deferred(call) ==
    /\ pc = "return"
    /\ defers # <<>>
    /\ defers[Len(defers)] = call
    /\ defers' = SubSeq(defers, 1, Len(defers) - 1)
    /\ pc' = IF Len(defers) = 1 THEN "done" ELSE "return"
    /\ UNCHANGED steps

\* defer indexer.Flush(): its error is dropped
Deferred_Flush ==
    /\ Deferred("Flush")
    /\ \E o \in Flush(ES) : Becomes(o)
    /\ UNCHANGED <<envVars, err, tx, rows, esDocs, esDocTypes, seenEsDocs,
                   cursor, pending, enqueued, logged, fnVars>>

\* mutant: the transaction committed when the pass returns
Deferred_RollbackCommits ==
    /\ Deferred("Rollback")
    /\ tx' = IF err = "" THEN "committed" ELSE "rolledback"
    /\ UNCHANGED <<envVars, esVars, err, rows, esDocs, esDocTypes, seenEsDocs,
                   cursor, pending, enqueued, logged, fnVars>>

\* defer tx.tx.Rollback()
Deferred_Rollback ==
    /\ Deferred("Rollback")
    /\ tx' = "rolledback"
    /\ UNCHANGED <<envVars, esVars, err, rows, esDocs, esDocTypes, seenEsDocs,
                   cursor, pending, enqueued, logged, fnVars>>

\* defer logTime(prefixlog, start, &rows)
Deferred_logTime ==
    /\ Deferred("logTime")
    /\ logged' = Append(logged, rows)
    /\ UNCHANGED <<envVars, esVars, err, tx, rows, esDocs, esDocTypes, seenEsDocs,
                   cursor, pending, enqueued, fnVars>>

(***************************************************************************)
(* The pass.                                                               *)
(***************************************************************************)
FnIdle ==
    /\ fnA = ZeroDocument
    /\ fnB = ZeroDocument
    /\ fnOp = "none"
    /\ fnPrev = FALSE
    /\ fnRes = FALSE
    /\ fnRev = FALSE
    /\ fnCls = [id |-> "", esDocs |-> EmptyMap, json |-> ToJSON(ZeroDocument, FALSE, TRUE),
                class |-> NoAction, err |-> FALSE]

PassStart ==
    /\ pc = "ReindexPrefix"
    /\ err = ""
    /\ tx = "none"
    /\ defers = <<>>
    /\ rows = rowMetadata
    /\ esDocs = EmptyMap
    /\ esDocTypes = EmptyMap
    /\ seenEsDocs = {}
    /\ cursor = <<>>
    /\ pending = {}
    /\ indexer = <<>>
    /\ sent = <<>>
    /\ flushCalls = 0
    /\ enqueued = <<>>
    /\ logged = <<>>
    /\ steps = <<>>

Init ==
    /\ catalog \in [Uuids -> CatalogObjects]
    /\ stale \in 0..MaxStale
    /\ indexed \in {f \in [EsIds -> UNION {IndexedDocuments(id) : id \in EsIds}] :
                       \A id \in EsIds : f[id] \in IndexedDocuments(id)}
    /\ found = indexed
    /\ PassStart
    /\ FnIdle

Next ==
    \/ ReindexPrefix_BeginTx
    \/ ReindexPrefix_createUuidsTable
    \/ ReindexPrefix_getSearchResults
    \/ ReindexPrefix_createPermsTable
    \/ ReindexPrefix_createMetadataTable
    \/ ReindexPrefix_NewBulkIndexer
    \/ processDataobjects_Query
    \/ processDataobjects_Row
    \/ processDataobjects_End
    \/ processCollections_Query
    \/ processCollections_Row
    \/ processCollections_End
    \/ processDeletions_Range
    \/ processDeletions_End
    \/ ReindexPrefix_FinalFlush
    \/ Deferred_Flush
    \/ Deferred_Rollback
    \/ Deferred_logTime

Spec == Init /\ [][Next]_vars

\* ReindexPrefix runs in one goroutine and every call it makes returns: a
\* pass that can take a step takes one
SpecLive == Spec /\ WF_vars(Next)

(***************************************************************************)
(* Properties of the pass (under Spec).                                    *)
(***************************************************************************)
\* the catalog objects under the prefix
Present == {u \in Uuids : catalog[u] # NoObject}

\* how many of the requests handed to the accumulator are for id, with op
Requests(op, id) ==
    Cardinality({i \in DOMAIN enqueued : enqueued[i].op = op /\ enqueued[i].id = id})

\* how many of the requests handed to the accumulator are req
Copies(req) == Cardinality({i \in DOMAIN enqueued : enqueued[i] = req})

\* both row sequences are exhausted and no row failed
Classified ==
    \/ pc \in {"processDeletions", "FinalFlush"}
    \/ pc \in {"return", "done"} /\ err \in {"", "Flush"}

\* the range of processDeletions is over and no delete failed
DeletionsDone ==
    \/ pc = "FinalFlush"
    \/ pc \in {"return", "done"} /\ err \in {"", "Flush"}

\* the row of object u needs indexing: its id is not in the snapshot, or its
\* document differs from the snapshot's
Absent(u) == Lower(u) \notin DOMAIN esDocs

Differs(u) ==
    /\ Lower(u) \in DOMAIN esDocs
    /\ ~Equal(Unmarshal(Row(u).json).doc, esDocs[Lower(u)])

\* the document indexed under the id of object u is the one the catalog
\* projects: the same source, or a source that deserializes to an Equal document
MirrorsObject(u) ==
    /\ indexed[Lower(u)] # NoDoc
    /\ \/ indexed[Lower(u)].source = Row(u).json
       \/ /\ ~Unmarshal(indexed[Lower(u)].source).err
          /\ ~Unmarshal(Row(u).json).err
          /\ Equal(Unmarshal(Row(u).json).doc, Unmarshal(indexed[Lower(u)].source).doc)

\* C1: after a pass that ended in success, every flushed bulk applied and
\* nobody else writing, the documents indexed under the prefix are those the
\* catalog projects under the prefix: the same ids, and under each id the
\* projected document.
C1_IndexMirrorsCatalogAfterPass ==
    (pc = "done" /\ err = "") =>
        /\ Hits = {Lower(u) : u \in Present}
        /\ \A u \in Present : MirrorsObject(u)

\* C2: once both row sequences are classified, every catalog row whose id is
\* absent from the snapshot or whose document differs from the snapshot's has
\* exactly one index request, typed file or folder after its sequence and
\* carrying the row's id and JSON; every other row has none; no other id is
\* indexed; and the added and updated counters of each category count the
\* absent and the differing rows of that category.
C2_OneIndexRequestPerStaleRow ==
    Classified =>
        /\ \A u \in Present :
              IF Absent(u) \/ Differs(u)
              THEN /\ Requests("index", Lower(u)) = 1
                   /\ Copies(BulkIndexRequest(catalog[u].kind, Lower(u), Row(u).json)) = 1
              ELSE Requests("index", Lower(u)) = 0
        /\ \A i \in DOMAIN enqueued :
              enqueued[i].op = "index" => \E u \in Present : enqueued[i].id = Lower(u)
        /\ \A t \in {"file", "folder"} :
              /\ rows[Added(t)] = Cardinality({u \in Present : catalog[u].kind = t /\ Absent(u)})
              /\ rows[Updated(t)] = Cardinality({u \in Present : catalog[u].kind = t /\ Differs(u)})

\* a pass classified a file that differs from its indexed document and a
\* folder the index lacks
C2_Witness ==
    /\ pc = "processDeletions"
    /\ rows.dataobjectsUpdated = 1
    /\ rows.collsAdded = 1
    /\ rows.processed = 2

\* C3: once the range of processDeletions is over, the ids with a delete
\* request are the ids of the snapshot that were not marked seen, which are
\* the snapshot ids that no catalog row carries; each has exactly one delete
\* request, typed as the snapshot records it (file when it records nothing),
\* and the removed counter of each category counts the deletes of that type.
C3_DeletesAreSnapshotMinusSeen ==
    /\ \A i \in DOMAIN enqueued :
          enqueued[i].op = "delete" => enqueued[i].id \in DOMAIN esDocs \ seenEsDocs
    /\ DeletionsDone =>
          LET gone == DOMAIN esDocs \ seenEsDocs
              typeOf(id) == IF id \in DOMAIN esDocTypes THEN esDocTypes[id] ELSE "file"
          IN /\ seenEsDocs = {Lower(u) : u \in Present}
             /\ \A id \in gone :
                   /\ Requests("delete", id) = 1
                   /\ Copies(BulkDeleteRequest(typeOf(id), id)) = 1
             /\ \A t \in {"file", "folder"} :
                   rows[Removed(t)] = Cardinality({id \in gone : typeOf(id) = t})

\* a pass has deleted an indexed folder no catalog row carries and kept a
\* document whose row it saw
C3_Witness ==
    /\ pc = "FinalFlush"
    /\ rows.collsRemoved = 1
    /\ rows.dataobjectsRemoved = 0
    /\ seenEsDocs \cap DOMAIN esDocs # {}

\* C4: with more rows in the identifier relation than maxInPrefix the pass
\* goes no further than createUuidsTable, ends with ErrTooManyResults (or
\* with the failure of the transaction or of the query), enqueues nothing and
\* calls no flush; and ErrTooManyResults is returned only when the rows, or
\* the hits, are more than maxInPrefix, so a count equal to it does not abort.
C4_TooManyRowsAbortsBeforeAnyBulk ==
    /\ BaseObjectUuids > maxInPrefix =>
          /\ pc \in {"ReindexPrefix", "createUuidsTable", "return", "done"}
          /\ pc \in {"return", "done"} =>
                err \in {"ErrTooManyResults", "BeginTx", "CreateTemporaryTable"}
          /\ enqueued = <<>>
          /\ sent = <<>>
          /\ flushCalls = 0
    /\ err = "ErrTooManyResults" =>
          \/ BaseObjectUuids > maxInPrefix
          \/ sent = <<>> /\ TotalHits > maxInPrefix

\* a pass over more rows than the cap has ended with ErrTooManyResults
C4_Witness ==
    /\ pc = "done"
    /\ err = "ErrTooManyResults"
    /\ BaseObjectUuids > maxInPrefix
    /\ tx = "rolledback"

\* C5: with more hits than maxInPrefix (the index as the pass found it) the
\* snapshot holds no document and no type, the count getSearchResults
\* returns with ErrTooManyResults is the total, the pass ends in an error
\* without entering classification: no id is marked seen and nothing is
\* enqueued.
C5_TooManyHitsAbortsBeforeClassification ==
    (sent = <<>> /\ TotalHits > maxInPrefix) =>
        /\ esDocs = EmptyMap
        /\ esDocTypes = EmptyMap
        /\ seenEsDocs = {}
        /\ enqueued = <<>>
        /\ pc \in {"ReindexPrefix", "createUuidsTable", "getSearchResults", "return", "done"}
        /\ pc \in {"return", "done"} => err # ""
        /\ (pc \in {"return", "done"} /\ err = "ErrTooManyResults"
               /\ BaseObjectUuids <= maxInPrefix) => rows.documents = TotalHits

\* a pass over more hits than the cap has ended with ErrTooManyResults and
\* the total as its documents statistic
C5_Witness ==
    /\ pc = "done"
    /\ err = "ErrTooManyResults"
    /\ BaseObjectUuids <= maxInPrefix
    /\ rows.documents = TotalHits
    /\ TotalHits > maxInPrefix

\* C10: the accumulator never holds more than the bulk size, and while the
\* pass is processing (no call has failed) it holds less: add has flushed on
\* reaching the bulk size; when a pass ends in success the accumulator is
\* empty and every request enqueued has been sent in a successful flush, in
\* the order it was enqueued.
C10_AutoFlushAndNothingLeftOnSuccess ==
    /\ Len(indexer) <= bulkSize
    /\ pc \notin {"return", "done"} => Len(indexer) < bulkSize
    /\ (pc = "done" /\ err = "") => (indexer = <<>> /\ sent = enqueued)

\* a successful pass has sent more requests than one bulk holds: add flushed
\* a full buffer and the last flush sent the rest
C10_Witness ==
    /\ pc = "done"
    /\ err = ""
    /\ Len(sent) > bulkSize
    /\ Len(sent) % bulkSize # 0

\* the calls of ReindexPrefix, in the order of its body
Calls ==
    <<"BeginTx", "createUuidsTable", "getSearchResults", "createPermsTable",
      "createMetadataTable", "NewBulkIndexer", "processDataobjects",
      "processCollections", "processDeletions">>

\* the elements of a sequence
Range(s) == {s[i] : i \in DOMAIN s}

\* the errors a pass may return
Errors ==
    {"BeginTx", "CreateTemporaryTable", "ErrTooManyResults", "Search",
     "GetDataObjects", "GetCollections", "Scan", "Unmarshal", "Add", "Flush"}

\* the state part of C11
C11_Released ==
    /\ tx \in {"none", "open", "rolledback"}
    /\ tx = "none" <=> "BeginTx" \notin Range(steps)
    /\ tx = "open" => (pc # "done" /\ "Rollback" \in Range(defers))
    /\ pc = "done" => /\ defers = <<>>
                      /\ tx = IF err = "BeginTx" THEN "none" ELSE "rolledback"
                      /\ err \in Errors \cup {""}
                      /\ err = "" => steps = Calls
                      /\ err = "BeginTx" <=> steps = <<>>

\* C11: once ReindexPrefix has begun the transaction, the transaction is
\* rolled back on every way out of the pass, with or without an error, and
\* it is never committed; every pass ends, in success or in one error, and
\* the result does not change once the pass is returning.
C11_ScopeReleasedOnEveryExit ==
    /\ []C11_Released
    /\ [][(pc \in {"return", "done"}) => (err' = err)]_vars
    /\ [][tx = "rolledback" => (tx' = "rolledback")]_vars
    /\ <>(pc = "done")

\* a pass that failed while classifying rows has ended with its transaction
\* rolled back
C11_Witness ==
    /\ pc = "done"
    /\ err = "Scan"
    /\ tx = "rolledback"
    /\ rows.processed > 0

\* two lists hold the same entries, each as many times, in any order
SameEntries(s, t) ==
    \A e \in Range(s) \cup Range(t) :
        Cardinality({i \in DOMAIN s : s[i] = e}) = Cardinality({i \in DOMAIN t : t[i] = e})

\* two documents agree: the same scalar fields, the same metadata and
\* userPermissions entries in any order
SameDocument(d, e) ==
    /\ \A f \in {"Id", "Path", "Label", "Creator", "FileType", "DateCreated",
                  "DateModified", "FileSize"} : d[f] = e[f]
    /\ SameEntries(d.Metadata, e.Metadata)
    /\ SameEntries(d.UserPermissions, e.UserPermissions)

\* the catalog and the index agree under the prefix: the index holds a
\* document under the id of every catalog object and under no other id, of
\* the object's type, and its source deserializes to the document the
\* catalog projects
Agree ==
    /\ Hits = {Lower(u) : u \in Present}
    /\ \A u \in Present :
          /\ catalog[u].wellTyped
          /\ indexed[Lower(u)].type = catalog[u].kind
          /\ ~Unmarshal(indexed[Lower(u)].source).err
          /\ SameDocument(Unmarshal(Row(u).json).doc, Unmarshal(indexed[Lower(u)].source).doc)

\* C12: when the catalog and the index agree on every object under the
\* prefix (the entries of metadata and userPermissions in any order), no row
\* is counted added or updated and no document removed, nothing is handed to
\* the accumulator, no row fails to classify, and processed is incremented
\* once per row: it is the number of catalog objects once both sequences are
\* exhausted.
C12_AgreementEnqueuesNothing ==
    (sent = <<>> /\ Agree) =>
        /\ enqueued = <<>>
        /\ indexer = <<>>
        /\ \A t \in {"file", "folder"} :
              rows[Added(t)] = 0 /\ rows[Updated(t)] = 0 /\ rows[Removed(t)] = 0
        /\ err \notin {"Unmarshal", "Add", "Flush"}
        /\ rows.processed = Cardinality(seenEsDocs)
        /\ rows.processed = rows.dataobjects + rows.colls
        /\ Classified =>
              /\ rows.processed = Cardinality(Present)
              /\ rows.dataobjects = Cardinality({u \in Present : catalog[u].kind = "file"})
              /\ rows.colls = Cardinality({u \in Present : catalog[u].kind = "folder"})

\* a pass over two objects the index agrees on, one with its metadata
\* indexed in another order, has ended in success
C12_Witness ==
    /\ pc = "done"
    /\ err = ""
    /\ sent = <<>>
    /\ Agree
    /\ rows.processed = 2
    /\ \E u \in Present :
          Unmarshal(indexed[Lower(u)].source).doc.Metadata # Unmarshal(Row(u).json).doc.Metadata

\* the state part of C13
C13_Logged ==
    /\ Len(logged) <= 1
    /\ logged # <<>> <=> pc = "done"
    /\ pc \notin {"ReindexPrefix", "done"} => (defers # <<>> /\ defers[1] = "logTime")
    /\ pc = "done" =>
          /\ logged = <<rows>>
          /\ defers = <<>>
          /\ tx # "open"
          /\ "NewBulkIndexer" \in Range(steps) => flushCalls >= 1
          /\ logged[1].processed = rows.dataobjects + rows.colls

\* C13: every pass logs one summary line, with the statistics as they are
\* when the pass returns, whether it returns nil or an error (the failure of
\* BeginTx included); the line is logged after the deferred flush and the
\* rollback of the transaction, and nothing happens in the pass after it.
C13_OneSummaryLineLast ==
    /\ []C13_Logged
    /\ [][logged = <<>>]_vars
    /\ <>(Len(logged) = 1)

\* a pass that failed on its second row has logged that it processed one
C13_Witness ==
    /\ pc = "done"
    /\ err = "Unmarshal"
    /\ Len(logged) = 1
    /\ logged[1].processed = 1
    /\ tx = "rolledback"
    /\ flushCalls >= 1

\* C14: when a pass returns ErrTooManyResults, the count that comes with it
\* is the one observed: the rows statistic is the row count of the
\* identifier relation when the catalog side is over the cap, and the
\* documents statistic is the total of the hits when the index side is.
C14_TooManyResultsCarriesCount ==
    (pc \in {"return", "done"} /\ err = "ErrTooManyResults") =>
        IF BaseObjectUuids > maxInPrefix
        THEN rows.rows = BaseObjectUuids
        ELSE rows.documents = TotalHits

\* a row of the files has been scanned, or of the folders
FileRowSeen == pc = "dataobjects.Next" \/ "processDataobjects" \in Range(steps)

FolderRowSeen ==
    \/ rows.colls + rows.collsAdded + rows.collsUpdated > 0
    \/ pc = "colls.Next"

\* where a request stands in the pass: index of a file, index of a folder,
\* delete
Stage(req) == IF req.op = "delete" THEN 3 ELSE IF req.type = "file" THEN 1 ELSE 2

\* what C15 says of the rows and the deletes: every file row is classified
\* before any folder row, and no delete is enqueued before both sequences
\* are exhausted
RowsInOrder ==
    /\ FolderRowSeen =>
          /\ "processDataobjects" \in Range(steps)
          /\ rows.dataobjects = Cardinality({u \in Present : catalog[u].kind = "file"})
    /\ (\E i \in DOMAIN enqueued : enqueued[i].op = "delete") =>
          /\ "processCollections" \in Range(steps)
          /\ rows.colls = Cardinality({u \in Present : catalog[u].kind = "folder"})
    /\ \A i, j \in DOMAIN enqueued : i < j => Stage(enqueued[i]) <= Stage(enqueued[j])

Snapshot == "getSearchResults" \in Range(steps)

\* C16: a hit whose source does not deserialize does not fail the search or
\* the pass: the snapshot holds exactly the hits that deserialize, each with
\* its document and its type, and the hit that does not is in neither map;
\* a pass returns a deserialization error only for a catalog row; and once
\* both row sequences are exhausted every catalog row whose id the snapshot
\* lacks, the rows of the skipped hits among them, has been classified
\* IndexDocument and handed to the accumulator with its type, id and JSON.
C16_UnreadableHitIsSkipped ==
    /\ (Snapshot /\ sent = <<>>) =>
          /\ rows.documents = TotalHits
          /\ DOMAIN esDocs = Deserialized
          /\ DOMAIN esDocTypes = Deserialized
          /\ \A id \in Deserialized :
                /\ esDocs[id] = Unmarshal(indexed[id].source).doc
                /\ esDocTypes[id] = indexed[id].type
    /\ err = "Unmarshal" =>
          \E u \in Present : ~catalog[u].wellTyped /\ Lower(u) \in DOMAIN esDocs
    /\ Classified =>
          /\ \A u \in Present :
                Lower(u) \notin DOMAIN esDocs =>
                    Copies(BulkIndexRequest(catalog[u].kind, Lower(u), Row(u).json)) = 1
          /\ \A t \in {"file", "folder"} :
                rows[Added(t)] =
                    Cardinality({u \in Present : catalog[u].kind = t /\ Lower(u) \notin DOMAIN esDocs})
    /\ (Classified /\ sent = <<>>) =>
          \A u \in Present :
              Lower(u) \in Hits \ Deserialized =>
                  \E i \in DOMAIN enqueued :
                      enqueued[i] = BulkIndexRequest(catalog[u].kind, Lower(u), Row(u).json)

\* of two hits one did not deserialize; the pass kept the other in the
\* snapshot and has enqueued the index of the catalog row of the first
C16_Witness ==
    /\ pc = "processDeletions"
    /\ sent = <<>>
    /\ TotalHits = 2
    /\ Cardinality(DOMAIN esDocs) = 1
    /\ Len(enqueued) = 1
    /\ \E u \in Present :
          /\ Lower(u) \in Hits \ Deserialized
          /\ enqueued[1] = BulkIndexRequest(catalog[u].kind, Lower(u), Row(u).json)

\* the rows of a pass in the order it reads them
AllRows == RowsOf("file") \o RowsOf("folder")

\* the place of the row of object u among the rows
RowNumber(u) == CHOOSE k \in DOMAIN AllRows : AllRows[k].id = Lower(u)

\* the pass stopped at the row of object u with the error of json.Unmarshal:
\* no later row is read, the row is not counted, no index request is
\* enqueued for it and no delete at all
StoppedAtRow(u) ==
    /\ pc \in {"return", "done"}
    /\ err = "Unmarshal"
    /\ seenEsDocs = {AllRows[k].id : k \in 1..RowNumber(u)}
    /\ rows.processed = RowNumber(u) - 1
    /\ Requests("index", Lower(u)) = 0
    /\ \A i \in DOMAIN enqueued : enqueued[i].op # "delete"
    /\ "processDeletions" \notin Range(steps)

\* C17 as claimed: a catalog row whose JSON does not deserialize stops the
\* pass with that error as soon as it is read.
C17_UnreadableRowIsFatal ==
    \A u \in Present :
        (~catalog[u].wellTyped /\ Lower(u) \in seenEsDocs) => StoppedAtRow(u)

\* C17 amended: a catalog row whose id is in the snapshot and whose JSON
\* does not deserialize stops the pass with that error as soon as it is
\* read: no later row is classified, no deletion is computed and no index
\* request is enqueued for the row.
C17_UnreadableRowOfSnapshotIdIsFatal ==
    \A u \in Present :
        (~catalog[u].wellTyped /\ Lower(u) \in seenEsDocs /\ Lower(u) \in DOMAIN esDocs)
            => StoppedAtRow(u)

\* a pass indexed its first row, stopped at its second, which did not
\* deserialize, and has ended
C17_Witness ==
    /\ pc = "done"
    /\ err = "Unmarshal"
    /\ rows.processed = 1
    /\ Len(sent) = 1
    /\ Cardinality(seenEsDocs) = 2

\* the flushes the pass has called before its deferred one: one by Add at
\* every bulkSize-th request, and the final one when something is left
FlushesBeforeReturn ==
    (Len(enqueued) \div bulkSize)
    + (IF "processDeletions" \in Range(steps) /\ pc \in {"return", "done"}
          /\ Len(enqueued) % bulkSize # 0
       THEN 1 ELSE 0)

\* the calls that had returned when a pass failed with error e
StepsAtError(e) ==
    CASE e = "GetDataObjects" -> {6}
      [] e = "GetCollections" -> {7}
      [] e \in {"Scan", "Unmarshal"} -> {6, 7}
      [] e = "Add" -> {6, 7, 8}
      [] e = "Flush" -> {9}
      [] e = "" -> {9}
      [] OTHER -> 0..5

\* C18: from the creation of the accumulator on, its Flush is deferred, and
\* on every return of the pass, that of a failed file or folder
\* classification or deletion included, it is called once more, after the
\* flushes the pass made itself and never twice: what was buffered is sent
\* by it or, when it fails, stays buffered; no request is sent twice; and the
\* error returned is the one of the call that failed, whatever the deferred
\* flush answers.
C18_FlushAttemptedOnEveryExit ==
    /\ enqueued = sent \o indexer
    /\ ("NewBulkIndexer" \in Range(steps) /\ pc # "done") =>
          /\ Len(defers) >= 1
          /\ ("Flush" \in Range(defers)) => flushCalls = FlushesBeforeReturn
          /\ ("Flush" \notin Range(defers)) => flushCalls = FlushesBeforeReturn + 1
          /\ pc # "return" => defers = <<"logTime", "Rollback", "Flush">>
    /\ ("NewBulkIndexer" \in Range(steps) /\ pc = "done") =>
          flushCalls = FlushesBeforeReturn + 1
    /\ "NewBulkIndexer" \notin Range(steps) => flushCalls = 0
    /\ pc \in {"return", "done"} => Len(steps) \in StepsAtError(err)

\* a pass that failed while reading rows has ended with the one request it
\* had buffered sent by the deferred flush
C18_Witness ==
    /\ pc = "done"
    /\ err \in {"Scan", "Unmarshal", "GetCollections"}
    /\ Len(sent) = 1
    /\ indexer = <<>>
    /\ flushCalls = 1

\* what the index holds under id once request req is applied
Applied(req) ==
    IF req.op = "index" THEN [type |-> req.type, source |-> req.doc] ELSE NoDoc

\* the last request sent for id, if any, is what the index holds under id
StaysApplied(id) ==
    LET S == {i \in DOMAIN sent : sent[i].id = id}
    IN S # {} => indexed[id] = Applied(sent[CHOOSE i \in S : \A j \in S : j <= i])

\* the state part of C19
C19_Fatal ==
    /\ Len(indexer) >= bulkSize => (pc \in {"return", "done"} /\ err = "Add")
    /\ err \in {"Add", "Flush"} => pc \in {"return", "done"}
    /\ err = "Add" => (enqueued # <<>> /\ Len(enqueued) % bulkSize = 0)
    /\ err = "Flush" => (Len(steps) = Len(Calls) /\ Len(enqueued) % bulkSize # 0)
    /\ (pc \in {"return", "done"} /\ err = "") => indexer = <<>>
    /\ Len(enqueued) = rows.dataobjectsAdded + rows.dataobjectsUpdated + rows.dataobjectsRemoved
                        + rows.collsAdded + rows.collsUpdated + rows.collsRemoved
    /\ \A id \in EsIds : StaysApplied(id)

\* C19: an error of indexer.Add, for an index or for a delete request, or of
\* the final flush ends the pass with that error; once the pass is
\* returning no request is enqueued; and what a flush has sent stays sent and
\* applied: the index changes only by a flush sending more, never back.
C19_AddOrFlushErrorIsFatal ==
    /\ []C19_Fatal
    /\ [][(pc \in {"return", "done"}) => (enqueued' = enqueued)]_vars
    /\ [][/\ Len(sent') >= Len(sent)
          /\ SubSeq(sent', 1, Len(sent)) = sent
          /\ (indexed' # indexed) => (sent' # sent)]_vars

\* the final flush failed after Add had flushed a full bulk: the pass has
\* ended with the error, the bulk applied and the rest unsent
C19_Witness ==
    /\ pc = "done"
    /\ err = "Flush"
    /\ Len(sent) = bulkSize
    /\ indexer # <<>>
    /\ indexed[sent[1].id] = Applied(sent[1])
    /\ tx = "rolledback"

\* a side of the pass is over the cap: the rows of the identifier relation,
\* or the hits of the search (the index as the pass found it: nothing sent)
OverCap == BaseObjectUuids > maxInPrefix \/ (sent = <<>> /\ TotalHits > maxInPrefix)

\* the state part of C20
C20_Capped ==
    /\ rows.processed <= maxInPrefix
    /\ rows.processed <= rows.rows
    /\ Cardinality(seenEsDocs) <= maxInPrefix
    /\ Len(cursor) <= maxInPrefix
    /\ Cardinality(DOMAIN esDocs) <= maxInPrefix
    /\ Cardinality(DOMAIN esDocs) <= rows.documents
    /\ OverCap =>
          /\ sent = <<>>
          /\ enqueued = <<>>
          /\ rows.processed = 0
          /\ esDocs = EmptyMap
          /\ "getSearchResults" \notin Range(steps)
          /\ pc \in {"return", "done"} =>
                err \in {"ErrTooManyResults", "BeginTx", "CreateTemporaryTable", "Search"}

\* C20: a pass classifies at most maxInPrefix catalog rows and holds at most
\* maxInPrefix documents in its snapshot; with more rows in the identifier
\* relation, or more hits, than maxInPrefix the pass ends in an error
\* without classifying a row, and the index is left as it was.
C20_AtMostMaxInPrefixPerSide ==
    /\ []C20_Capped
    /\ [][OverCap => (indexed' = indexed)]_vars

\* a pass with as many rows and as many hits as the cap allows has gone
\* through all of them and ended in success
C20_Witness ==
    /\ pc = "done"
    /\ err = ""
    /\ rows.rows = maxInPrefix
    /\ rows.processed = maxInPrefix
    /\ rows.documents = maxInPrefix
    /\ Cardinality(DOMAIN esDocs) = maxInPrefix

\* C22: in one pass no id has both an index and a delete request; a delete
\* request is only for an id of the
\* snapshot that no row of the file or folder sequence carried; an index
\* request is only for an id marked seen; and every row read and classified
\* has its id marked seen.
C22_NoIndexAndDeleteForOneId ==
    /\ \A id \in EsIds :
          /\ ~(Requests("index", id) > 0 /\ Requests("delete", id) > 0)
          /\ Requests("delete", id) > 0 => (id \in DOMAIN esDocs /\ id \notin seenEsDocs)
          /\ Requests("index", id) > 0 => id \in seenEsDocs
    /\ \A i \in DOMAIN enqueued : enqueued[i].id \in EsIds
    /\ rows.processed <= Cardinality(seenEsDocs)
    /\ seenEsDocs \subseteq {Lower(u) : u \in Present}
    /\ DeletionsDone =>
          \A u \in Present : Requests("delete", Lower(u)) = 0

\* a pass has updated a document of the snapshot and deleted another, and
\* has ended in success
C22_Witness ==
    /\ pc = "done"
    /\ err = ""
    /\ \E id \in seenEsDocs \cap DOMAIN esDocs : Requests("index", id) = 1
    /\ \E id \in DOMAIN esDocs \ seenEsDocs : Requests("delete", id) = 1

\* the catalog objects whose document the index holds under an id that
\* differs from the row's id in letter case only, and not under the row's id
StoredInOtherCase ==
    {u \in Present : Lower(u) # u /\ found[u] # NoDoc /\ found[Lower(u)] = NoDoc}

\* C23: the snapshot is keyed by the ids as the index stores them, the rows
\* carry the lower-cased id and the lookups compare the strings: for a
\* catalog object whose document is indexed under an id that differs only in
\* letter case, once the pass is through its deletions the row has been
\* classified IndexDocument, with one index request under the lower-cased id,
\* and the stored id has one delete request, whatever the two documents
\* hold.
C23_OtherCaseIsIndexedAndDeleted ==
    DeletionsDone =>
        \A u \in StoredInOtherCase :
            /\ Lower(u) \notin DOMAIN esDocs
            /\ Copies(BulkIndexRequest(catalog[u].kind, Lower(u), Row(u).json)) = 1
            /\ rows[Added(catalog[u].kind)] >= 1
            /\ Requests("delete", u) = 1

(***************************************************************************)
(* Equal and classify applied to documents drawn from a bounded set.       *)
(***************************************************************************)
SeqsUpTo(S, n) == UNION {[1..k -> S] : k \in 0..n}

FnMetadata == SeqsUpTo({M1, M2}, MaxListLen)

FnPermissions == {<<>>, <<P1>>, <<P1, P2>>, <<P1, P1>>}

FnDocuments ==
    {ElasticsearchDocument("u1", "/zone/home/x", "x", "ann#zone", "csv", 50, 90, 7, md, ps) :
        md \in FnMetadata, ps \in FnPermissions}

ScalarFields ==
    {"DateModified", "FileSize", "Path", "Label", "Id", "Creator", "FileType", "DateCreated"}

ListFields == {"Metadata", "UserPermissions"}

\* values a scalar field may be changed to
ScalarValues(f) ==
    CASE f = "DateModified" -> {90, 91, 100}
      [] f = "FileSize" -> {7, 8, 0}
      [] f = "DateCreated" -> {50, 49, 0}
      [] f = "Path" -> {"/zone/home/x", "/zone/home/X", "/zone/home/x "}
      [] f = "Label" -> {"x", "X", ""}
      [] f = "Id" -> {"u1", "U1", "u2"}
      [] f = "Creator" -> {"ann#zone", "Ann#zone", "ann"}
      [] f = "FileType" -> {"csv", "CSV", ""}

\* the orders of 1..n
Orders(n) == {p \in [1..n -> 1..n] : \A i, j \in 1..n : i # j => p[i] # p[j]}

\* list s with its entries in the order p
Permuted(s, p) == [i \in DOMAIN s |-> s[p[i]]]

InitFn ==
    /\ catalog = [u \in Uuids |-> NoObject]
    /\ stale = 0
    /\ indexed = [id \in EsIds |-> NoDoc]
    /\ found = indexed
    /\ PassStart
    /\ fnA \in FnDocuments
    /\ fnB \in FnDocuments
    /\ fnOp = "init"
    /\ fnPrev = FALSE
    /\ fnRes = FALSE
    /\ fnRev = FALSE
    /\ fnCls = [id |-> "", esDocs |-> EmptyMap, json |-> ToJSON(ZeroDocument, FALSE, TRUE),
                class |-> NoAction, err |-> FALSE]

\* doc.Equal(other) and other.Equal(doc)
Equal_Call ==
    /\ fnOp = "init"
    /\ fnOp' = "equal"
    /\ fnRes' = Equal(fnA, fnB)
    /\ fnRev' = Equal(fnB, fnA)
    /\ UNCHANGED <<envVars, passVars, fnA, fnB, fnPrev, fnCls>>

\* Equal before and after the entries of a list of one argument are reordered
Equal_Permuted ==
    /\ fnOp = "init"
    /\ \E side \in {"doc", "other"}, f \in ListFields :
          LET d == IF side = "doc" THEN fnA ELSE fnB
          IN \E p \in Orders(Len(d[f])) :
                /\ fnA' = IF side = "doc" THEN [fnA EXCEPT ![f] = Permuted(@, p)] ELSE fnA
                /\ fnB' = IF side = "other" THEN [fnB EXCEPT ![f] = Permuted(@, p)] ELSE fnB
    /\ fnOp' = "permuted"
    /\ fnPrev' = Equal(fnA, fnB)
    /\ fnRes' = Equal(fnA', fnB')
    /\ fnRev' = Equal(fnB', fnA')
    /\ UNCHANGED <<envVars, passVars, fnCls>>

\* Equal before and after one scalar field of one argument is changed
Equal_ScalarChanged ==
    /\ fnOp = "init"
    /\ \E side \in {"doc", "other"}, f \in ScalarFields :
          LET d == IF side = "doc" THEN fnA ELSE fnB
          IN \E v \in ScalarValues(f) \ {d[f]} :
                /\ fnA' = IF side = "doc" THEN [fnA EXCEPT ![f] = v] ELSE fnA
                /\ fnB' = IF side = "other" THEN [fnB EXCEPT ![f] = v] ELSE fnB
    /\ fnOp' = "scalar"
    /\ fnPrev' = Equal(fnA, fnB)
    /\ fnRes' = Equal(fnA', fnB')
    /\ fnRev' = Equal(fnB', fnA')
    /\ UNCHANGED <<envVars, passVars, fnCls>>

\* classify(id, jsonstr, esDocs): jsonstr the source of fnA, esDocs holding
\* fnB under key, or nothing
classify_Call ==
    /\ fnOp = "init"
    /\ \E id \in EsIds, keys \in {{}} \cup {{k} : k \in EsIds},
          wellTyped \in BOOLEAN, emptyAsNull \in BOOLEAN :
          LET json == ToJSON(fnA, emptyAsNull, wellTyped)
              snapshot == [k \in keys |-> fnB]
              c == classify(id, json, snapshot)
          IN fnCls' = [id |-> id, esDocs |-> snapshot, json |-> json,
                       class |-> c.class, err |-> c.err]
    /\ fnOp' = "classify"
    /\ UNCHANGED <<envVars, passVars, fnA, fnB, fnPrev, fnRes, fnRev>>

NextFn ==
    \/ Equal_Call
    \/ Equal_Permuted
    \/ Equal_ScalarChanged
    \/ classify_Call

SpecFn == InitFn /\ [][NextFn]_vars

(***************************************************************************)
(* Properties of classify and Equal (under SpecFn).                        *)
(***************************************************************************)
\* C6: for an id present in the snapshot and a projected JSON that
\* deserializes, classify gives no error, gives UpdateDocument exactly when
\* the deserialized document is not Equal to the snapshot's document for the
\* id, and gives NoAction exactly when it is Equal.
C6_ClassifyFollowsEqual ==
    (fnOp = "classify" /\ fnCls.id \in DOMAIN fnCls.esDocs /\ fnCls.json.wellTyped) =>
        LET same == Equal(Unmarshal(fnCls.json).doc, fnCls.esDocs[fnCls.id])
        IN /\ ~fnCls.err
           /\ (fnCls.class = UpdateDocument) <=> ~same
           /\ (fnCls.class = NoAction) <=> same

\* classify has answered NoAction for a document whose lists are not those of
\* the snapshot's document, entry for entry
C6_Witness ==
    /\ fnOp = "classify"
    /\ fnCls.id \in DOMAIN fnCls.esDocs
    /\ fnCls.json.wellTyped
    /\ fnCls.class = NoAction
    /\ fnA.Metadata # fnB.Metadata

\* C7: for an id absent from the snapshot classify gives IndexDocument and no
\* error, whatever the content of the (valid) document JSON and of the
\* snapshot.
C7_AbsentIdIsIndexed ==
    (fnOp = "classify" /\ fnCls.id \notin DOMAIN fnCls.esDocs /\ fnCls.json.wellTyped) =>
        (fnCls.class = IndexDocument /\ ~fnCls.err)

\* classify has answered for an id the snapshot lacks while the snapshot
\* holds an Equal document under another id
C7_Witness ==
    /\ fnOp = "classify"
    /\ fnCls.id \notin DOMAIN fnCls.esDocs
    /\ fnCls.json.wellTyped
    /\ fnCls.esDocs # EmptyMap
    /\ Equal(fnA, fnB)
    /\ fnCls.class = IndexDocument

\* C8: Equal is reflexive and symmetric, and reordering the entries of
\* metadata or of userPermissions in either argument leaves its result as it
\* was.
C8_EqualReflexiveSymmetricOrderFree ==
    /\ Equal(fnA, fnA)
    /\ Equal(fnB, fnB)
    /\ fnOp \in {"equal", "permuted", "scalar"} => fnRes = fnRev
    /\ fnOp = "permuted" => fnRes = fnPrev

\* two documents compared equal after a reordering left their metadata in
\* different orders
C8_Witness ==
    /\ fnOp = "permuted"
    /\ fnPrev
    /\ fnRes
    /\ fnA.Metadata # fnB.Metadata
    /\ Len(fnA.Metadata) = Len(fnB.Metadata)

\* C9: when two documents compare equal and one scalar field of one of them
\* is changed to another value, they no longer compare equal, in either
\* direction.
C9_ScalarChangeBreaksEqual ==
    (fnOp = "scalar" /\ fnPrev) => (~fnRes /\ ~fnRev)

\* a scalar of one of two equal documents has been changed: dateCreated
C9_Witness ==
    /\ fnOp = "scalar"
    /\ fnPrev
    /\ ~fnRes
    /\ fnA.DateCreated # fnB.DateCreated

\* two documents hold the same scalar fields, the same set of metadata
\* triples and the same set of userPermissions pairs
SameSets(d, e) ==
    /\ \A f \in ScalarFields : d[f] = e[f]
    /\ Range(d.Metadata) = Range(e.Metadata)
    /\ Range(d.UserPermissions) = Range(e.UserPermissions)

\* C21: Equal compares metadata and userPermissions as sets: two documents
\* whose scalar fields agree are Equal exactly when their metadata hold the
\* same set of triples and their userPermissions the same set of pairs,
\* whatever the lengths of the lists and however often an entry is
\* repeated; and classify answers NoAction for a document that differs from
\* the snapshot's only by repeated entries.
C21_DuplicatesCollapse ==
    /\ fnOp \in {"equal", "permuted", "scalar"} =>
          /\ fnRes <=> SameSets(fnA, fnB)
          /\ fnRev <=> SameSets(fnA, fnB)
    /\ (fnOp = "classify" /\ fnCls.id \in DOMAIN fnCls.esDocs /\ fnCls.json.wellTyped
          /\ SameSets(Unmarshal(fnCls.json).doc, fnCls.esDocs[fnCls.id])) =>
             (fnCls.class = NoAction /\ ~fnCls.err)

\* classify has answered NoAction for a document with a metadata entry
\* twice where the snapshot's document has it once
C21_Witness ==
    /\ fnOp = "classify"
    /\ fnCls.id \in DOMAIN fnCls.esDocs
    /\ fnCls.class = NoAction
    /\ ~fnCls.err
    /\ Len(fnA.Metadata) = 2
    /\ Len(fnB.Metadata) = 1
    /\ Len(fnA.UserPermissions) # Len(fnB.UserPermissions)

====
